---- MODULE Spec2Model ----
(***************************************************************************)
(* Model of the decisionpoint client: the cash-flow pivot engine and its   *)
(* summary calculator (src/hooks/use-cashflow-analysis.ts), the task       *)
(* aggregator (src/components/tasks/tasks-category-view.tsx) and the       *)
(* fetch handlers of the analysis hook, the task view, the documents list  *)
(* with its soft delete (src/unnamed/part_000) and the last-analyzed-file  *)
(* hook (src/unnamed/part_001).                                            *)
(***************************************************************************)
EXTENDS Integers, Sequences, FiniteSets, TLC

VARIABLES
    records,        \* transformCashflowData: the `records` argument
    categories,     \* transformCashflowData: the `categories` argument
    pivot,          \* transformCashflowData: the returned PivotedCashflow
    tasks,          \* fetchTasksAndFiles: rows of the tasks query
    files,          \* fetchTasksAndFiles: rows of the uploaded_files query
    responses,      \* fetchTasksAndFiles: rows of the survey_responses query
    tasksWithState, \* fetchTasksAndFiles: tasks with response and isComplete
    taskCategories, \* TasksCategoryView: the `categories` state
    taskPc,         \* fetchTasksAndFiles: the await it is suspended at
    taskIsLoading,  \* TasksCategoryView: the `isLoading` state
    taskError,      \* TasksCategoryView: the `error` state
    taskFetch,      \* history of the task fetch: failed query, exit path, runs
    mounted,        \* the component on screen
    fileId,         \* useCashflowAnalysis: the `fileId` argument
    data,           \* useCashflowAnalysis: the `data` state
    isLoading,      \* useCashflowAnalysis: the `isLoading` state
    error,          \* useCashflowAnalysis: the `error` state
    loads,          \* useCashflowAnalysis: the calls of fetchData, in call order
    uploadedFiles,  \* DocumentsList: the `uploadedFiles` state
    docsIsLoading,  \* DocumentsList: the `isLoading` state
    docsFetch,      \* fetchFiles: the await it is suspended at, and its history
    store,          \* the uploaded_files table
    deletes,        \* DocumentsList: the calls of handleDeleteDocument, in call order
    storage,        \* localStorage: the entry last-analyzed-file-<businessId>
    lastFileId,     \* useLastAnalyzedFile: the `lastFileId` state
    lastIsLoading,  \* useLastAnalyzedFile: the `isLoading` state
    recentFiles,    \* useLastAnalyzedFile: the `recentFiles` state
    lastInit,       \* initialize: the await it is suspended at, and what it read
    recentFetches   \* useLastAnalyzedFile: the calls of fetchRecentFiles, in call order

pivotVars == <<records, categories, pivot>>

taskFnVars == <<tasks, files, responses, tasksWithState, taskCategories, taskPc>>

taskViewVars == <<taskIsLoading, taskError, taskFetch>>

analysisVars == <<fileId, data, isLoading, error, loads>>

docsVars == <<uploadedFiles, docsIsLoading, docsFetch, store, deletes>>

lastFileVars == <<storage, lastFileId, lastIsLoading, recentFiles, lastInit, recentFetches>>

machineVars == <<taskViewVars, mounted, analysisVars, docsVars, lastFileVars>>

vars == <<pivotVars, taskFnVars, machineVars>>

-----------------------------------------------------------------------------
(* Bounds *)

MaxRecords == 3
MaxTasks == 3
MaxFiles == 2
MaxResponses == 2
MaxLoads == 2
MaxTaskFetches == 2
MaxDeletes == 2
MaxRecentFetches == 2

-----------------------------------------------------------------------------
(* JavaScript values *)

Null == "null"

\* An object with no own keys.
EmptyObject == [k \in {} |-> 0]

\* obj[key] = value
Put(obj, key, value) ==
    [k \in (DOMAIN obj) \cup {key} |-> IF k = key THEN value ELSE obj[k]]

\* if (obj[key]) ... for a numeric cell: absent (undefined) and 0 are falsy
Truthy(obj, key) == key \in DOMAIN obj /\ obj[key] # 0

SetMin(S) == CHOOSE x \in S : \A y \in S : x <= y

\* Lexicographic order on sequences of UTF-16 code units (string `<`).
CodeUnitsLess(a, b) ==
    \E i \in 1..Len(b) :
        /\ \A j \in 1..(i - 1) : j <= Len(a) /\ a[j] = b[j]
        /\ (i > Len(a) \/ a[i] < b[i])

RECURSIVE NatToString(_)
NatToString(n) ==
    IF n < 10 THEN <<48 + n>> ELSE NatToString(n \div 10) \o <<48 + (n % 10)>>

\* Number.prototype.toString for an integer, as UTF-16 code units.
NumberToString(n) == IF n < 0 THEN <<45>> \o NatToString(0 - n) ELSE NatToString(n)

\* UTF-16 code units of the category names used as inputs.
CodeUnits ==
    [n \in {"Sales", "Rent", "Loan", "Legal", "Zoning", "audit", "Uncategorized"} |->
        CASE n = "Sales"  -> <<83, 97, 108, 101, 115>>
          [] n = "Rent"   -> <<82, 101, 110, 116>>
          [] n = "Loan"   -> <<76, 111, 97, 110>>
          [] n = "Legal"  -> <<76, 101, 103, 97, 108>>
          [] n = "Zoning" -> <<90, 111, 110, 105, 110, 103>>
          [] n = "audit"  -> <<97, 117, 100, 105, 116>>
          [] n = "Uncategorized" ->
                <<85, 110, 99, 97, 116, 101, 103, 111, 114, 105, 122, 101, 100>>]

\* One step of a stable sort: put e after every element that is not greater.
DefaultSortInsert(sorted, e) ==
    LET after == {i \in 1..Len(sorted) : CodeUnitsLess(e.key, sorted[i].key)}
        pos == IF after = {} THEN Len(sorted) + 1 ELSE SetMin(after)
    IN SubSeq(sorted, 1, pos - 1) \o <<e>> \o SubSeq(sorted, pos, Len(sorted))

RECURSIVE DefaultSortPrefix(_, _)
DefaultSortPrefix(keyed, n) ==
    IF n = 0 THEN <<>>
    ELSE DefaultSortInsert(DefaultSortPrefix(keyed, n - 1), keyed[n])

\* Array.prototype.sort() with no comparator: elements are ordered by the
\* code units of their string conversion. `keyed` pairs each element with
\* that conversion.
DefaultSort(keyed) ==
    LET s == DefaultSortPrefix(keyed, Len(keyed))
    IN [i \in 1..Len(s) |-> s[i].val]

\* [...new Set(seq)]: distinct elements in order of first occurrence.
RECURSIVE SetSpread(_, _)
SetSpread(seq, n) ==
    IF n = 0 THEN <<>>
    ELSE LET prev == SetSpread(seq, n - 1)
         IN IF \E i \in 1..Len(prev) : prev[i] = seq[n] THEN prev
            ELSE Append(prev, seq[n])

Range(seq) == {seq[i] : i \in 1..Len(seq)}

-----------------------------------------------------------------------------
(* Pivot engine inputs *)

YearSet == {2, 10}
AmountSet == {-1, 1}
CategoryIdSet == {"c1", "c2", "c3", "c9"}

RecordSet == [category_id : CategoryIdSet, year : YearSet, amount : AmountSet]

Cat(id, name, type) == [id |-> id, name |-> name, type |-> type]

\* Category tables: c9 never resolves; in the second table c1 and c3 share a
\* name; in the third the id c1 occurs twice (the later row wins the lookup).
CategoryTables ==
    { <<Cat("c1", "Sales", "income"), Cat("c2", "Rent", "expense"), Cat("c3", "Loan", "debt")>>,
      <<Cat("c1", "Sales", "income"), Cat("c2", "Rent", "expense"), Cat("c3", "Sales", "income")>>,
      <<Cat("c1", "Loan", "other"), Cat("c2", "Rent", "expense"), Cat("c1", "Sales", "income")>> }

RECURSIVE SeqsUpTo(_, _)
SeqsUpTo(S, n) ==
    IF n = 0 THEN {<<>>}
    ELSE LET shorter == SeqsUpTo(S, n - 1)
         IN shorter \cup {Append(s, e) : s \in {t \in shorter : Len(t) = n - 1}, e \in S}

-----------------------------------------------------------------------------
(* transformCashflowData and calculateSummary *)

RECURSIVE categoryMapPrefix(_, _)
categoryMapPrefix(cats, n) ==
    IF n = 0 THEN EmptyObject
    ELSE Put(categoryMapPrefix(cats, n - 1), cats[n].id, cats[n])

\* categories.forEach((category) => { categoryMap[category.id] = category })
categoryMap(cats) == categoryMapPrefix(cats, Len(cats))

\* Mutant: the distinct years are left in order of first occurrence.
yearsOf_unsorted(recs) ==
    SetSpread([i \in 1..Len(recs) |-> recs[i].year], Len(recs))

\* [...new Set(records.map((record) => record.year))].sort()
yearsOf(recs) ==
    LET distinct == SetSpread([i \in 1..Len(recs) |-> recs[i].year], Len(recs))
    IN DefaultSort([i \in 1..Len(distinct) |->
                       [key |-> NumberToString(distinct[i]), val |-> distinct[i]]])

\* years.forEach((year) => { byYear[year] = {} })
RECURSIVE byYearInit(_, _)
byYearInit(years, n) ==
    IF n = 0 THEN EmptyObject
    ELSE Put(byYearInit(years, n - 1), years[n], EmptyObject)

\* if (cell) cell += amount else cell = amount
\* Mutant: a cell that already exists keeps its first amount.
Accumulate_keepFirst(row, key, amount) ==
    IF key \in DOMAIN row THEN row ELSE Put(row, key, amount)

Accumulate(row, key, amount) ==
    IF Truthy(row, key) THEN Put(row, key, row[key] + amount)
    ELSE Put(row, key, amount)

\* Mutant: the row of the category is created anew for every record.
byCategoryStep_reinit(byCategory, categoryName, year, amount) ==
    Put(byCategory, categoryName, Accumulate(EmptyObject, year, amount))

\* if (!byCategory[categoryName]) byCategory[categoryName] = {}, then the cell
byCategoryStep(byCategory, categoryName, year, amount) ==
    LET row == IF categoryName \in DOMAIN byCategory THEN byCategory[categoryName]
               ELSE EmptyObject
    IN Put(byCategory, categoryName, Accumulate(row, year, amount))

\* Mutant: the byYear cell is overwritten instead of summed.
byYearStep_overwrite(byYear, categoryName, year, amount) ==
    Put(byYear, year, Put(byYear[year], categoryName, amount))

byYearStep(byYear, categoryName, year, amount) ==
    Put(byYear, year, Accumulate(byYear[year], categoryName, amount))

\* const category = categoryMap[record.category_id]; if (!category) return
Resolves(cmap, record) == record.category_id \in DOMAIN cmap

\* The body of records.forEach in transformCashflowData.
processRecord(acc, record, cmap) ==
    IF ~Resolves(cmap, record) THEN acc
    ELSE LET categoryName == cmap[record.category_id].name
         IN [byCategory |-> byCategoryStep(acc.byCategory, categoryName, record.year, record.amount),
             byYear |-> byYearStep(acc.byYear, categoryName, record.year, record.amount),
             categoryNames |-> IF categoryName \in Range(acc.categoryNames)
                               THEN acc.categoryNames
                               ELSE Append(acc.categoryNames, categoryName)]

RECURSIVE processRecords(_, _, _, _)
processRecords(recs, n, cmap, years) ==
    IF n = 0
    THEN [byCategory |-> EmptyObject, byYear |-> byYearInit(years, Len(years)),
          categoryNames |-> <<>>]
    ELSE processRecord(processRecords(recs, n - 1, cmap, years), recs[n], cmap)

\* years.forEach((year) => { incomeByYear[year] = 0; ... })
RECURSIVE zeroByYear(_, _)
zeroByYear(years, n) ==
    IF n = 0 THEN EmptyObject ELSE Put(zeroByYear(years, n - 1), years[n], 0)

\* Mutant: the amount is assigned instead of added.
AddOrZero_assign(m, year, amount) == Put(m, year, amount)

\* (m[year] || 0) + amount
AddOrZero(m, year, amount) ==
    Put(m, year, (IF Truthy(m, year) THEN m[year] ELSE 0) + amount)

\* Mutant: a record whose category does not resolve is counted as income.
summaryStep_countsUnresolved(acc, record, cmap) ==
    IF ~Resolves(cmap, record) \/ cmap[record.category_id].type = "income"
    THEN [acc EXCEPT !.incomeByYear = AddOrZero(@, record.year, record.amount),
                     !.totalIncome = @ + record.amount]
    ELSE IF cmap[record.category_id].type = "expense"
    THEN [acc EXCEPT !.expensesByYear = AddOrZero(@, record.year, record.amount),
                     !.totalExpenses = @ + record.amount]
    ELSE acc

\* The body of records.forEach in calculateSummary.
summaryStep(acc, record, cmap) ==
    IF ~Resolves(cmap, record) THEN acc
    ELSE LET type == cmap[record.category_id].type
         IN IF type = "income"
            THEN [acc EXCEPT !.incomeByYear = AddOrZero(@, record.year, record.amount),
                             !.totalIncome = @ + record.amount]
            ELSE IF type = "expense"
            THEN [acc EXCEPT !.expensesByYear = AddOrZero(@, record.year, record.amount),
                             !.totalExpenses = @ + record.amount]
            ELSE acc

RECURSIVE summaryFold(_, _, _, _)
summaryFold(recs, n, cmap, years) ==
    IF n = 0
    THEN [incomeByYear |-> zeroByYear(years, Len(years)),
          expensesByYear |-> zeroByYear(years, Len(years)),
          totalIncome |-> 0, totalExpenses |-> 0]
    ELSE summaryStep(summaryFold(recs, n - 1, cmap, years), recs[n], cmap)

\* Mutant: expenses are added instead of subtracted.
netOfYear_sum(incomeByYear, expensesByYear, year) ==
    incomeByYear[year] + expensesByYear[year]

\* netByYear[year] = incomeByYear[year] - expensesByYear[year]
netOfYear(incomeByYear, expensesByYear, year) ==
    incomeByYear[year] - expensesByYear[year]

RECURSIVE netByYearPrefix(_, _, _, _)
netByYearPrefix(base, acc, years, n) ==
    IF n = 0 THEN base
    ELSE Put(netByYearPrefix(base, acc, years, n - 1), years[n],
             netOfYear(acc.incomeByYear, acc.expensesByYear, years[n]))

\* Mutant: expenses are added instead of subtracted.
totalNetOf_sum(totalIncome, totalExpenses) == totalIncome + totalExpenses

\* totalNet: totalIncome - totalExpenses
totalNetOf(totalIncome, totalExpenses) == totalIncome - totalExpenses

calculateSummary(recs, cmap, years) ==
    LET acc == summaryFold(recs, Len(recs), cmap, years)
    IN [incomeByYear |-> acc.incomeByYear,
        expensesByYear |-> acc.expensesByYear,
        netByYear |-> netByYearPrefix(zeroByYear(years, Len(years)), acc, years, Len(years)),
        totalIncome |-> acc.totalIncome,
        totalExpenses |-> acc.totalExpenses,
        totalNet |-> totalNetOf(acc.totalIncome, acc.totalExpenses)]

transformCashflowData(recs, cats, file) ==
    LET cmap == categoryMap(cats)
        years == yearsOf(recs)
        acc == processRecords(recs, Len(recs), cmap, years)
    IN [kind |-> "pivot",
        byCategory |-> acc.byCategory,
        byYear |-> acc.byYear,
        categories |-> cmap,
        years |-> years,
        categoryNames |-> DefaultSort([i \in 1..Len(acc.categoryNames) |->
                              [key |-> CodeUnits[acc.categoryNames[i]],
                               val |-> acc.categoryNames[i]]]),
        summary |-> calculateSummary(recs, cmap, years),
        records |-> recs,
        file |-> file]

NoData == [kind |-> "null"]

-----------------------------------------------------------------------------
(* Task aggregator inputs *)

Undefined == "undefined"

TaskIdSet == {"t1", "t2"}
TaskCategorySet == {Null, "", "Legal", "Zoning", "audit", "Uncategorized"}
IsCompleteArgSet == {"true", "false", Undefined}
FileStatusSet == {"processed", "pending"}
ResponseValueSet == {Null, "", "yes"}

FileRowSet == [task_id : TaskIdSet, status : FileStatusSet]
ResponseRowSet == [task_id : TaskIdSet, value : ResponseValueSet]

\* Rows of the tasks table: task_id is the key, so rows differ in it.
TaskRow(i, category) == [task_id |-> <<"t1", "t2", "t3", "t4", "t5">>[i], category |-> category]

TaskRowLists ==
    { <<>>, <<TaskRow(1, "Legal")>>, <<TaskRow(1, "Legal"), TaskRow(2, Null)>>,
      <<TaskRow(2, Null), TaskRow(1, "Legal")>> }

\* Arguments of processTasksAndFiles: the i-th task has the i-th id.
TaskArgLists ==
    { [i \in 1..Len(s) |-> [task_id |-> TaskRow(i, s[i].category).task_id,
                            category |-> s[i].category,
                            isComplete |-> s[i].isComplete]] :
        s \in SeqsUpTo([category : TaskCategorySet, isComplete : IsCompleteArgSet], MaxTasks) }

-----------------------------------------------------------------------------
(* fetchTasksAndFiles: merging responses and files into the tasks *)

JsBool(b) == IF b THEN "true" ELSE "false"

\* !!value for a string, null or undefined
TruthyValue(v) == v \notin {Undefined, Null, ""}

\* responses?.find((r) => r.task_id === t.task_id): the first match
findResponse(responseRows, task_id) ==
    LET matches == {i \in 1..Len(responseRows) : responseRows[i].task_id = task_id}
    IN IF matches = {} THEN [found |-> FALSE, value |-> Undefined]
       ELSE [found |-> TRUE, value |-> responseRows[SetMin(matches)].value]

\* files?.some((file) => file.task_id === t.task_id && file.status === "processed")
hasProcessedFile(fileRows, task_id) ==
    \E i \in 1..Len(fileRows) :
        fileRows[i].task_id = task_id /\ fileRows[i].status = "processed"

\* The body of tasks.map in fetchTasksAndFiles.
taskWithState(t, fileRows, responseRows) ==
    LET resp == findResponse(responseRows, t.task_id)
    IN [task_id |-> t.task_id,
        category |-> t.category,
        response |-> IF resp.value \in {Undefined, Null} THEN Null ELSE resp.value,
        isComplete |-> JsBool(hasProcessedFile(fileRows, t.task_id) \/ TruthyValue(resp.value))]

mergeResponses(taskRows, fileRows, responseRows) ==
    [i \in 1..Len(taskRows) |-> taskWithState(taskRows[i], fileRows, responseRows)]

-----------------------------------------------------------------------------
(* processTasksAndFiles *)

\* task.category || "Uncategorized"
bucketName(task) ==
    IF task.category \in {Null, Undefined, ""} THEN "Uncategorized" ELSE task.category

\* task.isComplete === true
taskIsComplete(task) == task.isComplete = "true"

\* The body of tasks.forEach: tasksByCategory keeps its keys in insertion order.
groupStep(tasksByCategory, task) ==
    LET category == bucketName(task)
        pushed == [task EXCEPT !.isComplete = taskIsComplete(task)]
        at == {i \in 1..Len(tasksByCategory) : tasksByCategory[i].name = category}
    IN IF at = {}
       THEN Append(tasksByCategory, [name |-> category, tasks |-> <<pushed>>])
       ELSE [tasksByCategory EXCEPT ![SetMin(at)].tasks = Append(@, pushed)]

RECURSIVE groupTasks(_, _)
groupTasks(taskArgs, n) ==
    IF n = 0 THEN <<>> ELSE groupStep(groupTasks(taskArgs, n - 1), taskArgs[n])

\* Mutant: one complete task makes the bucket complete.
bucketIsComplete_some(bucketTasks) ==
    \E i \in 1..Len(bucketTasks) : bucketTasks[i].isComplete

\* tasks.every((task) => task.isComplete)
bucketIsComplete(bucketTasks) ==
    \A i \in 1..Len(bucketTasks) : bucketTasks[i].isComplete

FoldCase(cu) == IF cu >= 97 /\ cu <= 122 THEN cu - 32 ELSE cu

PrimaryKey(name) == [i \in 1..Len(CodeUnits[name]) |-> FoldCase(CodeUnits[name][i])]

\* a.localeCompare(b) for names made of letters: letters compare without
\* regard to case; names equal up to case put the lower-case letter first.
localeCompare(a, b) ==
    IF CodeUnitsLess(PrimaryKey(a), PrimaryKey(b)) THEN -1
    ELSE IF CodeUnitsLess(PrimaryKey(b), PrimaryKey(a)) THEN 1
    ELSE IF a = b THEN 0
    ELSE IF CodeUnitsLess(CodeUnits[b], CodeUnits[a]) THEN -1 ELSE 1

\* Mutant: no special case for "Uncategorized".
compareCategories_plain(a, b) == localeCompare(a.name, b.name)

\* The comparator given to categoriesArray.sort.
compareCategories(a, b) ==
    IF a.name = "Uncategorized" THEN 1
    ELSE IF b.name = "Uncategorized" THEN -1
    ELSE localeCompare(a.name, b.name)

\* One step of the sort: e goes before the first element it compares below.
categorySortInsert(sorted, e) ==
    LET after == {i \in 1..Len(sorted) : compareCategories(e, sorted[i]) < 0}
        pos == IF after = {} THEN Len(sorted) + 1 ELSE SetMin(after)
    IN SubSeq(sorted, 1, pos - 1) \o <<e>> \o SubSeq(sorted, pos, Len(sorted))

RECURSIVE categorySort(_, _)
categorySort(arr, n) ==
    IF n = 0 THEN <<>> ELSE categorySortInsert(categorySort(arr, n - 1), arr[n])

processTasksAndFiles(taskArgs) ==
    LET tasksByCategory == groupTasks(taskArgs, Len(taskArgs))
        categoriesArray == [i \in 1..Len(tasksByCategory) |->
                               [name |-> tasksByCategory[i].name,
                                tasks |-> tasksByCategory[i].tasks,
                                isComplete |-> bucketIsComplete(tasksByCategory[i].tasks)]]
    IN categorySort(categoriesArray, Len(categoriesArray))

-----------------------------------------------------------------------------
(* The record store, as the queries of the client see it *)

FileIdSet == {"", "f1", "f2", "f3"}

\* uploaded_files: f1 and f2 can be analysed, f3 is soft-deleted.
StoredFiles ==
    << [id |-> "f1", is_deleted |-> "false", status |-> "processed", task_id |-> "t1"],
       [id |-> "f2", is_deleted |-> Null, status |-> "pending", task_id |-> "t2"],
       [id |-> "f3", is_deleted |-> "true", status |-> "processed", task_id |-> "t2"] >>

StoredRecords ==
    << [source_file_id |-> "f1", category_id |-> "c2", year |-> 10, amount |-> 1],
       [source_file_id |-> "f1", category_id |-> "c1", year |-> 2, amount |-> 1],
       [source_file_id |-> "f2", category_id |-> "c1", year |-> 2, amount |-> -1],
       [source_file_id |-> "f1", category_id |-> "c9", year |-> 2, amount |-> 1] >>

StoredCategories ==
    <<Cat("c1", "Sales", "income"), Cat("c2", "Rent", "expense"), Cat("c3", "Loan", "debt")>>

StoredTasks == <<TaskRow(1, "Zoning"), TaskRow(2, Null), TaskRow(3, "Legal")>>

StoredResponses == <<[task_id |-> "t3", value |-> "yes"]>>

\* What a query can do: return rows, return an error, or reject.
QueryOutcomes == {"ok", "error", "throw"}

\* Mutant: the file query does not look at is_deleted.
fileQuery_anyRow(fid) ==
    LET Match(row) == row.id = fid
    IN SelectSeq(StoredFiles, Match)

\* from("uploaded_files").select("*").eq("id", fileId)
\*     .or("is_deleted.is.null,is_deleted.eq.false")
fileQuery(fid) ==
    LET Match(row) == row.id = fid /\ row.is_deleted \in {Null, "false"}
    IN SelectSeq(StoredFiles, Match)

\* One step of ORDER BY year ASC: numeric order, rows of one year keep theirs.
orderByYearInsert(sorted, row) ==
    LET after == {i \in 1..Len(sorted) : row.year < sorted[i].year}
        pos == IF after = {} THEN Len(sorted) + 1 ELSE SetMin(after)
    IN SubSeq(sorted, 1, pos - 1) \o <<row>> \o SubSeq(sorted, pos, Len(sorted))

RECURSIVE orderByYear(_, _)
orderByYear(rows, n) ==
    IF n = 0 THEN <<>> ELSE orderByYearInsert(orderByYear(rows, n - 1), rows[n])

\* from("cashflow_records").select("*").eq("source_file_id", fileId)
\*     .order("year", { ascending: true })
recordsQuery(fid) ==
    LET Match(row) == row.source_file_id = fid
        rows == SelectSeq(StoredRecords, Match)
        ordered == orderByYear(rows, Len(rows))
    IN [i \in 1..Len(ordered) |->
           [category_id |-> ordered[i].category_id, year |-> ordered[i].year,
            amount |-> ordered[i].amount]]

\* from("uploaded_files").select("id, task_id, status").eq("business_id", ...)
taskFilesQuery ==
    [i \in 1..Len(StoredFiles) |->
        [id |-> StoredFiles[i].id, task_id |-> StoredFiles[i].task_id,
         status |-> StoredFiles[i].status]]

-----------------------------------------------------------------------------
(* useCashflowAnalysis: fetchData *)

NoFile == [id |-> Null]

\* A call of fetchData: the fileId it closed over, the await it is suspended
\* at, its local results, and its history (the query that failed, the path
\* it left by).
Load(fid, pc, exit) ==
    [fileId |-> fid, pc |-> pc, file |-> NoFile, records |-> <<>>,
     failure |-> "none", exit |-> exit]

\* Mutant: the catch block logs and sets no error.
analysisCatch_logOnly(err) == Null

\* catch (err): setError(err instanceof Error ? err : new Error(String(err)))
analysisCatch(err) == err

\* The useEffect on [fetchData] at mount and on a new fileId, or refresh().
FetchData(fid) ==
    /\ mounted = "analysis"
    /\ Len(loads) < MaxLoads
    /\ Len(loads) = 0 => fid = fileId
    /\ fileId' = fid
    /\ IF fid = ""
       THEN /\ error' = "File ID is required"
            /\ isLoading' = FALSE
            /\ loads' = Append(loads, Load(fid, "done", "returned"))
       ELSE /\ isLoading' = TRUE
            /\ error' = Null
            /\ loads' = Append(loads, Load(fid, "fileQuery", "none"))
    /\ UNCHANGED <<data, pivotVars, taskFnVars, taskViewVars, mounted, docsVars, lastFileVars>>

\* Mutant: the result of a load is dropped when its fileId is no longer the
\* current one.
setData_ifCurrent(l) ==
    IF loads[l].fileId = fileId
    THEN transformCashflowData(loads[l].records, StoredCategories, loads[l].file)
    ELSE data

\* setData(transformedData): the load commits the pivot of what it fetched.
setData(l) == transformCashflowData(loads[l].records, StoredCategories, loads[l].file)

\* Mutant: after the catch block the load goes on to its last query.
LoadFails_continues(l, failure, err) ==
    /\ error' = analysisCatch(err)
    /\ isLoading' = FALSE
    /\ loads' = [loads EXCEPT ![l].pc = "categoriesQuery", ![l].failure = failure,
                              ![l].exit = "caught"]
    /\ UNCHANGED data

\* The load leaves through catch and finally.
LoadFails(l, failure, err) ==
    /\ error' = analysisCatch(err)
    /\ isLoading' = FALSE
    /\ loads' = [loads EXCEPT ![l].pc = "done", ![l].failure = failure, ![l].exit = "caught"]
    /\ UNCHANGED data

FileQueryReturns(l, outcome) ==
    /\ mounted = "analysis"
    /\ loads[l].pc = "fileQuery"
    /\ LET fileData == fileQuery(loads[l].fileId)
       IN CASE outcome = "error" -> LoadFails(l, "file", "Error fetching file: store error")
            [] outcome = "throw" -> LoadFails(l, "file", "network error")
            [] outcome = "ok" /\ Len(fileData) = 0 ->
                 LoadFails(l, "none", "File not found or has been deleted")
            [] outcome = "ok" /\ Len(fileData) > 0 ->
                 /\ loads' = [loads EXCEPT ![l].pc = "recordsQuery", ![l].file = fileData[1]]
                 /\ UNCHANGED <<data, isLoading, error>>
    /\ UNCHANGED <<fileId, pivotVars, taskFnVars, taskViewVars, mounted, docsVars, lastFileVars>>

RecordsQueryReturns(l, outcome) ==
    /\ mounted = "analysis"
    /\ loads[l].pc = "recordsQuery"
    /\ CASE outcome = "error" -> LoadFails(l, "records", "Error fetching records: store error")
         [] outcome = "throw" -> LoadFails(l, "records", "network error")
         [] outcome = "ok" ->
              /\ loads' = [loads EXCEPT ![l].pc = "categoriesQuery",
                                        ![l].records = recordsQuery(loads[l].fileId)]
              /\ UNCHANGED <<data, isLoading, error>>
    /\ UNCHANGED <<fileId, pivotVars, taskFnVars, taskViewVars, mounted, docsVars, lastFileVars>>

CategoriesQueryReturns(l, outcome) ==
    /\ mounted = "analysis"
    /\ loads[l].pc = "categoriesQuery"
    /\ CASE outcome = "error" ->
              LoadFails(l, "categories", "Error fetching categories: store error")
         [] outcome = "throw" -> LoadFails(l, "categories", "network error")
         [] outcome = "ok" ->
              /\ data' = setData(l)
              /\ isLoading' = FALSE
              /\ loads' = [loads EXCEPT ![l].pc = "done", ![l].exit = "completed"]
              /\ UNCHANGED error
    /\ UNCHANGED <<fileId, pivotVars, taskFnVars, taskViewVars, mounted, docsVars, lastFileVars>>

-----------------------------------------------------------------------------
(* TasksCategoryView: fetchTasksAndFiles *)

\* catch (err): setError(err instanceof Error ? err.message : "An unknown error occurred")
taskCatch(err) == err

\* The useEffect on [supabase, businessId].
FetchTasksAndFiles ==
    /\ mounted = "tasks"
    /\ taskPc \in {"idle", "done"}
    /\ taskFetch.runs < MaxTaskFetches
    /\ taskIsLoading' = TRUE
    /\ taskPc' = "tasksQuery"
    /\ taskFetch' = [failure |-> "none", exit |-> "none", runs |-> taskFetch.runs + 1]
    /\ tasks' = <<>> /\ files' = <<>> /\ responses' = <<>> /\ tasksWithState' = <<>>
    /\ UNCHANGED <<taskCategories, taskError, pivotVars, mounted, analysisVars, docsVars, lastFileVars>>

\* The fetch leaves through catch and finally.
TaskFetchFails(failure, err) ==
    /\ taskError' = taskCatch(err)
    /\ taskIsLoading' = FALSE
    /\ taskPc' = "done"
    /\ taskFetch' = [taskFetch EXCEPT !.failure = failure, !.exit = "caught"]
    /\ UNCHANGED <<tasksWithState, taskCategories>>

TasksQueryReturns(outcome) ==
    /\ mounted = "tasks"
    /\ taskPc = "tasksQuery"
    /\ CASE outcome = "error" ->
              TaskFetchFails("tasks", "Failed to fetch tasks: store error") /\ UNCHANGED tasks
         [] outcome = "throw" -> TaskFetchFails("tasks", "network error") /\ UNCHANGED tasks
         [] outcome = "ok" ->
              /\ tasks' = StoredTasks
              /\ taskPc' = "filesQuery"
              /\ UNCHANGED <<tasksWithState, taskCategories, taskViewVars>>
    /\ UNCHANGED <<files, responses, pivotVars, mounted, analysisVars, docsVars, lastFileVars>>

TaskFilesQueryReturns(outcome) ==
    /\ mounted = "tasks"
    /\ taskPc = "filesQuery"
    /\ CASE outcome = "error" ->
              TaskFetchFails("files", "Failed to fetch files: store error") /\ UNCHANGED files
         [] outcome = "throw" -> TaskFetchFails("files", "network error") /\ UNCHANGED files
         [] outcome = "ok" ->
              /\ files' = taskFilesQuery
              /\ taskPc' = "responsesQuery"
              /\ UNCHANGED <<tasksWithState, taskCategories, taskViewVars>>
    /\ UNCHANGED <<tasks, responses, pivotVars, mounted, analysisVars, docsVars, lastFileVars>>

\* A returned responsesError is logged and `responses` stays null: the merge
\* then finds no response (responses?.find) and processTasksAndFiles gets [].
ResponsesQueryReturns(outcome) ==
    /\ mounted = "tasks"
    /\ taskPc = "responsesQuery"
    /\ CASE outcome = "throw" ->
              TaskFetchFails("responses", "network error") /\ UNCHANGED responses
         [] outcome \in {"ok", "error"} ->
              LET rows == IF outcome = "ok" THEN StoredResponses ELSE <<>>
                  merged == mergeResponses(tasks, files, rows)
              IN
              /\ responses' = rows
              /\ tasksWithState' = merged
              /\ taskCategories' = processTasksAndFiles(merged)
              /\ taskIsLoading' = FALSE
              /\ taskPc' = "done"
              /\ taskFetch' = [taskFetch EXCEPT
                                  !.failure = IF outcome = "ok" THEN "none" ELSE "responsesError",
                                  !.exit = "completed"]
              /\ UNCHANGED taskError
    /\ UNCHANGED <<tasks, files, pivotVars, mounted, analysisVars, docsVars, lastFileVars>>

-----------------------------------------------------------------------------
(* DocumentsList: fetchFiles *)

\* DocumentsList declares the states uploadedFiles and isLoading and no error
\* state; the catch block of fetchFiles only logs.
documentsListError == Null

\* from("uploaded_files").select("*").eq("user_id", ...)
\*     .order("created_at", { ascending: false }): no is_deleted filter
documentsQuery == store

FetchFiles ==
    /\ mounted = "documents"
    /\ docsFetch.pc = "idle"
    /\ docsIsLoading' = TRUE
    /\ docsFetch' = [docsFetch EXCEPT !.pc = "getUser"]
    /\ UNCHANGED <<uploadedFiles, pivotVars, taskFnVars, taskViewVars, mounted, analysisVars,
                   store, deletes, lastFileVars>>

\* supabase.auth.getUser(): a user, no user (return), or a rejection.
GetUserReturns(outcome) ==
    /\ mounted = "documents"
    /\ docsFetch.pc = "getUser"
    /\ CASE outcome = "user" ->
              /\ docsFetch' = [docsFetch EXCEPT !.pc = "filesQuery"]
              /\ UNCHANGED docsIsLoading
         [] outcome = "nouser" ->
              /\ docsFetch' = [docsFetch EXCEPT !.pc = "done", !.exit = "returned"]
              /\ docsIsLoading' = FALSE
         [] outcome = "throw" ->
              /\ docsFetch' = [docsFetch EXCEPT !.pc = "done", !.exit = "caught"]
              /\ docsIsLoading' = FALSE
    /\ UNCHANGED <<uploadedFiles, pivotVars, taskFnVars, taskViewVars, mounted, analysisVars,
                   store, deletes, lastFileVars>>

DocumentsQueryReturns(outcome) ==
    /\ mounted = "documents"
    /\ docsFetch.pc = "filesQuery"
    /\ CASE outcome \in {"error", "throw"} ->
              /\ docsFetch' = [docsFetch EXCEPT !.pc = "done", !.failure = "files",
                                                !.exit = "caught"]
              /\ UNCHANGED uploadedFiles
         [] outcome = "ok" ->
              /\ uploadedFiles' = documentsQuery
              /\ docsFetch' = [docsFetch EXCEPT !.pc = "done", !.exit = "completed"]
    /\ docsIsLoading' = FALSE
    /\ UNCHANGED <<pivotVars, taskFnVars, taskViewVars, mounted, analysisVars,
                   store, deletes, lastFileVars>>

\* A call of handleDeleteDocument: its argument, the `uploadedFiles` of the
\* render whose handler was called, the await it is suspended at and the
\* path it left by.
DeleteCall(fid, closure) ==
    [fileId |-> fid, uploadedFiles |-> closure, pc |-> "update", exit |-> "none"]

\* onDelete of the row menu of a listed document.
HandleDeleteDocument(fid) ==
    /\ mounted = "documents"
    /\ Len(deletes) < MaxDeletes
    /\ \E i \in 1..Len(uploadedFiles) : uploadedFiles[i].id = fid
    /\ deletes' = Append(deletes, DeleteCall(fid, uploadedFiles))
    /\ UNCHANGED <<uploadedFiles, docsIsLoading, docsFetch, store, pivotVars, taskFnVars,
                   taskViewVars, mounted, analysisVars, lastFileVars>>

\* update({ is_deleted: true }).eq("id", fileId)
softDelete(rows, fid) ==
    [i \in 1..Len(rows) |->
        IF rows[i].id = fid THEN [rows[i] EXCEPT !.is_deleted = "true"] ELSE rows[i]]

\* uploadedFiles.filter((file) => file.id !== fileId)
withoutFile(rows, fid) ==
    LET Keep(file) == file.id # fid
    IN SelectSeq(rows, Keep)

\* The update returns: on success the list is set to the handler's own
\* `uploadedFiles` without the file; a failure is caught and shown as a toast.
DeleteUpdateReturns(d, outcome) ==
    /\ mounted = "documents"
    /\ deletes[d].pc = "update"
    /\ CASE outcome \in {"error", "throw"} ->
              /\ deletes' = [deletes EXCEPT ![d].pc = "done", ![d].exit = "caught"]
              /\ UNCHANGED <<uploadedFiles, store>>
         [] outcome = "ok" ->
              /\ store' = softDelete(store, deletes[d].fileId)
              /\ uploadedFiles' = withoutFile(deletes[d].uploadedFiles, deletes[d].fileId)
              /\ deletes' = [deletes EXCEPT ![d].pc = "done", ![d].exit = "completed"]
    /\ UNCHANGED <<docsIsLoading, docsFetch, pivotVars, taskFnVars, taskViewVars, mounted,
                   analysisVars, lastFileVars>>

-----------------------------------------------------------------------------
(* useLastAnalyzedFile *)

\* The freshness window of the stored entry, in days:
\* Date.now() - timestamp < 30 * 24 * 60 * 60 * 1000
FreshnessDays == 30

StorageEntry(kind, fid, age) == [kind |-> kind, fileId |-> fid, age |-> age]

\* The entry of this businessId: absent, unreadable (getItem or JSON.parse
\* throws), or a {fileId, timestamp} pair of some age in days: a fresh entry
\* for a file that exists (f1), is soft-deleted (f3) or is missing (f9), a
\* fresh entry with an empty id, and an entry for f1 of exactly thirty days.
StorageSet ==
    {StorageEntry("none", Null, 0), StorageEntry("unreadable", Null, 0),
     StorageEntry("entry", "f1", FreshnessDays)}
        \cup {StorageEntry("entry", fid, FreshnessDays - 1) : fid \in {"f1", "f3", "f9", ""}}

SavedFileIdSet == {"f2"}

\* uploaded_files as the hook reads it. In the first table f3, the latest
\* processed file, is soft-deleted and f4 is the latest one that is not; the
\* second table has no processed file that is not deleted.
LastFileStores ==
    { << [id |-> "f1", is_deleted |-> "false", status |-> "processed", processed_at |-> 1],
         [id |-> "f2", is_deleted |-> Null, status |-> "pending", processed_at |-> 0],
         [id |-> "f3", is_deleted |-> "true", status |-> "processed", processed_at |-> 3],
         [id |-> "f4", is_deleted |-> Null, status |-> "processed", processed_at |-> 2] >>,
      << [id |-> "f3", is_deleted |-> "true", status |-> "processed", processed_at |-> 3],
         [id |-> "f2", is_deleted |-> Null, status |-> "pending", processed_at |-> 0] >> }

\* useLastAnalyzedFile declares the states lastFileId, isLoading and
\* recentFiles and no error state; every catch block of the hook only logs.
lastFileError == Null

\* Mutant: an entry of exactly thirty days is still used.
getLastFileFromStorage_inclusive(entry) ==
    IF entry.kind = "entry" /\ entry.age <= FreshnessDays THEN entry.fileId ELSE Null

\* getLastFileFromStorage: the stored fileId when the entry can be read and
\* is less than thirty days old, null otherwise.
getLastFileFromStorage(entry) ==
    IF entry.kind = "entry" /\ entry.age < FreshnessDays THEN entry.fileId ELSE Null

\* One step of ORDER BY processed_at DESC.
orderByProcessedAtInsert(sorted, row) ==
    LET after == {i \in 1..Len(sorted) : row.processed_at > sorted[i].processed_at}
        pos == IF after = {} THEN Len(sorted) + 1 ELSE SetMin(after)
    IN SubSeq(sorted, 1, pos - 1) \o <<row>> \o SubSeq(sorted, pos, Len(sorted))

RECURSIVE orderByProcessedAt(_, _)
orderByProcessedAt(rows, n) ==
    IF n = 0 THEN <<>>
    ELSE orderByProcessedAtInsert(orderByProcessedAt(rows, n - 1), rows[n])

\* from("uploaded_files").select(...).eq("user_id", ...).eq("status", "processed")
\*     .order("processed_at", { ascending: false })
recentFilesQuery(rows) ==
    LET Match(row) == row.status = "processed"
        processed == SelectSeq(rows, Match)
    IN orderByProcessedAt(processed, Len(processed))

\* data?.filter((file) => file.is_deleted === false || file.is_deleted === null)
filterNotDeleted(rows) ==
    LET Keep(file) == file.is_deleted \in {"false", Null}
    IN SelectSeq(rows, Keep)

\* from("uploaded_files").select("id").eq("id", fileId)
\*     .or("(is_deleted.is.null,is_deleted.eq.false)")
checkFileQuery(rows, fid) ==
    LET Match(row) == row.id = fid /\ row.is_deleted \in {Null, "false"}
    IN SelectSeq(rows, Match)

\* A call of fetchRecentFiles: the await it is suspended at, whether
\* initialize awaits it, the path it left by and the value it returned.
RecentFetch(awaited) ==
    [pc |-> "getUser", awaited |-> awaited, exit |-> "none", result |-> Null]

\* The useEffect of the hook: initialize up to its first await.
Initialize ==
    /\ mounted = "lastFile"
    /\ lastInit.pc = "start"
    /\ LET storedFileId == getLastFileFromStorage(storage)
       IN IF storedFileId \notin {Null, ""}
          THEN /\ lastInit' = [pc |-> "checkFile", read |-> storage,
                               storedFileId |-> storedFileId, check |-> "none"]
               /\ UNCHANGED <<lastIsLoading, recentFetches>>
          ELSE /\ lastInit' = [pc |-> "awaitRecent", read |-> storage,
                               storedFileId |-> storedFileId, check |-> "none"]
               /\ lastIsLoading' = TRUE
               /\ recentFetches' = Append(recentFetches, RecentFetch(TRUE))
    /\ UNCHANGED <<storage, lastFileId, recentFiles, pivotVars, taskFnVars, taskViewVars,
                   mounted, analysisVars, docsVars>>

\* checkFileExists returns to initialize: the stored file is taken and the
\* recent files are fetched in the background, or the hook falls back on
\* the recent files. A failed or rejected query counts as "does not exist".
CheckFileReturns(outcome) ==
    /\ mounted = "lastFile"
    /\ lastInit.pc = "checkFile"
    /\ LET found == checkFileQuery(store, lastInit.storedFileId)
           fileExists == outcome = "ok" /\ Len(found) = 1
       IN IF fileExists
          THEN /\ lastFileId' = lastInit.storedFileId
               /\ lastInit' = [lastInit EXCEPT !.pc = "done", !.check = "exists"]
               /\ recentFetches' = Append(recentFetches, RecentFetch(FALSE))
          ELSE /\ lastInit' = [lastInit EXCEPT !.pc = "awaitRecent",
                                   !.check = IF outcome = "ok" THEN "missing" ELSE "failed"]
               /\ recentFetches' = Append(recentFetches, RecentFetch(TRUE))
               /\ UNCHANGED lastFileId
    /\ lastIsLoading' = TRUE
    /\ UNCHANGED <<storage, recentFiles, pivotVars, taskFnVars, taskViewVars, mounted,
                   analysisVars, docsVars>>

\* refreshFiles: fetchRecentFiles called by the component that uses the
\* hook. One call is kept for initialize while it has not made its own.
RefreshFiles ==
    /\ mounted = "lastFile"
    /\ Len(recentFetches) + (IF lastInit.pc \in {"start", "checkFile"} THEN 1 ELSE 0)
          < MaxRecentFetches
    /\ lastIsLoading' = TRUE
    /\ recentFetches' = Append(recentFetches, RecentFetch(FALSE))
    /\ UNCHANGED <<storage, lastFileId, recentFiles, lastInit, pivotVars, taskFnVars,
                   taskViewVars, mounted, analysisVars, docsVars>>

\* Mutant: the call returns without passing through the finally block.
RecentFetchEnds_keepsLoading(r, exit, result) ==
    /\ recentFetches' = [recentFetches EXCEPT ![r].pc = "done", ![r].exit = exit,
                                              ![r].result = result]
    /\ UNCHANGED lastIsLoading
    /\ IF recentFetches[r].awaited
       THEN lastFileId' = result /\ lastInit' = [lastInit EXCEPT !.pc = "done"]
       ELSE UNCHANGED <<lastFileId, lastInit>>

\* fetchRecentFiles returns `result` through finally; when initialize awaits
\* the call it goes on with setLastFileId(recentFileId).
RecentFetchEnds(r, exit, result) ==
    /\ recentFetches' = [recentFetches EXCEPT ![r].pc = "done", ![r].exit = exit,
                                              ![r].result = result]
    /\ lastIsLoading' = FALSE
    /\ IF recentFetches[r].awaited
       THEN lastFileId' = result /\ lastInit' = [lastInit EXCEPT !.pc = "done"]
       ELSE UNCHANGED <<lastFileId, lastInit>>

\* supabase.auth.getUser() in fetchRecentFiles: a user, no user (return
\* null), or a rejection (caught, return null).
RecentGetUserReturns(r, outcome) ==
    /\ mounted = "lastFile"
    /\ recentFetches[r].pc = "getUser"
    /\ CASE outcome = "user" ->
              /\ recentFetches' = [recentFetches EXCEPT ![r].pc = "filesQuery"]
              /\ UNCHANGED <<lastIsLoading, lastFileId, lastInit>>
         [] outcome = "nouser" -> RecentFetchEnds(r, "returned", Null)
         [] outcome = "throw" -> RecentFetchEnds(r, "caught", Null)
    /\ UNCHANGED <<storage, recentFiles, pivotVars, taskFnVars, taskViewVars, mounted,
                   analysisVars, docsVars>>

RecentFilesQueryReturns(r, outcome) ==
    /\ mounted = "lastFile"
    /\ recentFetches[r].pc = "filesQuery"
    /\ CASE outcome \in {"error", "throw"} ->
              /\ RecentFetchEnds(r, "caught", Null)
              /\ UNCHANGED recentFiles
         [] outcome = "ok" ->
              LET filteredData == filterNotDeleted(recentFilesQuery(store))
              IN /\ recentFiles' = filteredData
                 /\ RecentFetchEnds(r, "completed",
                                    IF Len(filteredData) > 0 THEN filteredData[1].id ELSE Null)
    /\ UNCHANGED <<storage, pivotVars, taskFnVars, taskViewVars, mounted, analysisVars,
                   docsVars>>

\* saveLastFile: setItem, then setLastFileId; a throwing setItem is logged.
SaveLastFile(fid, outcome) ==
    /\ mounted = "lastFile"
    /\ IF outcome = "ok"
       THEN /\ storage' = StorageEntry("entry", fid, 0)
            /\ lastFileId' = fid
       ELSE UNCHANGED <<storage, lastFileId>>
    /\ UNCHANGED <<lastIsLoading, recentFiles, lastInit, recentFetches, pivotVars,
                   taskFnVars, taskViewVars, mounted, analysisVars, docsVars>>

-----------------------------------------------------------------------------
(* Specification of the fetching components *)

TaskViewInit ==
    /\ taskIsLoading = TRUE
    /\ taskError = Null
    /\ taskFetch = [failure |-> "none", exit |-> "none", runs |-> 0]

AnalysisInit ==
    /\ data = NoData
    /\ isLoading = TRUE
    /\ error = Null
    /\ loads = <<>>

DocsInit ==
    /\ uploadedFiles = <<>>
    /\ docsIsLoading = TRUE
    /\ docsFetch = [pc |-> "idle", failure |-> "none", exit |-> "none"]
    /\ deletes = <<>>

LastFileInit ==
    /\ lastFileId = Null
    /\ lastIsLoading = TRUE
    /\ recentFiles = <<>>
    /\ lastInit = [pc |-> "start", read |-> StorageEntry("none", Null, 0),
                   storedFileId |-> Null, check |-> "none"]
    /\ recentFetches = <<>>

-----------------------------------------------------------------------------
(* Idle values of the variables a specification does not use *)

PivotIdle == records = <<>> /\ categories = <<>> /\ pivot = NoData

TaskFnIdle ==
    /\ tasks = <<>> /\ files = <<>> /\ responses = <<>>
    /\ tasksWithState = <<>> /\ taskCategories = <<>> /\ taskPc = "idle"

MachineIdle ==
    /\ mounted = "none"
    /\ fileId = ""
    /\ store = StoredFiles
    /\ storage = StorageEntry("none", Null, 0)
    /\ TaskViewInit /\ AnalysisInit /\ DocsInit /\ LastFileInit

Init ==
    /\ mounted \in {"analysis", "tasks", "documents", "lastFile"}
    /\ fileId \in (IF mounted = "analysis" THEN FileIdSet ELSE {""})
    /\ store \in (IF mounted = "lastFile" THEN LastFileStores ELSE {StoredFiles})
    /\ storage \in (IF mounted = "lastFile" THEN StorageSet
                                            ELSE {StorageEntry("none", Null, 0)})
    /\ TaskViewInit /\ AnalysisInit /\ DocsInit /\ LastFileInit
    /\ PivotIdle /\ TaskFnIdle

Next ==
    \/ \E fid \in FileIdSet : FetchData(fid)
    \/ \E l \in 1..Len(loads), outcome \in QueryOutcomes : FileQueryReturns(l, outcome)
    \/ \E l \in 1..Len(loads), outcome \in QueryOutcomes : RecordsQueryReturns(l, outcome)
    \/ \E l \in 1..Len(loads), outcome \in QueryOutcomes : CategoriesQueryReturns(l, outcome)
    \/ FetchTasksAndFiles
    \/ \E outcome \in QueryOutcomes : TasksQueryReturns(outcome)
    \/ \E outcome \in QueryOutcomes : TaskFilesQueryReturns(outcome)
    \/ \E outcome \in QueryOutcomes : ResponsesQueryReturns(outcome)
    \/ FetchFiles
    \/ \E outcome \in {"user", "nouser", "throw"} : GetUserReturns(outcome)
    \/ \E outcome \in QueryOutcomes : DocumentsQueryReturns(outcome)
    \/ \E fid \in FileIdSet : HandleDeleteDocument(fid)
    \/ \E d \in 1..Len(deletes), outcome \in QueryOutcomes : DeleteUpdateReturns(d, outcome)
    \/ Initialize
    \/ \E outcome \in QueryOutcomes : CheckFileReturns(outcome)
    \/ RefreshFiles
    \/ \E r \in 1..Len(recentFetches), outcome \in {"user", "nouser", "throw"} :
            RecentGetUserReturns(r, outcome)
    \/ \E r \in 1..Len(recentFetches), outcome \in QueryOutcomes :
            RecentFilesQueryReturns(r, outcome)
    \/ \E fid \in SavedFileIdSet, outcome \in {"ok", "throw"} : SaveLastFile(fid, outcome)

Spec == Init /\ [][Next]_vars

\* Some query or getUser call that is awaited returns, successfully or not.
\* The outcomes of a query share its guard and each of them ends the await;
\* for the survey-responses query the rejection stands for all of them.
QueryReturns ==
    \/ \E l \in 1..Len(loads), outcome \in QueryOutcomes : FileQueryReturns(l, outcome)
    \/ \E l \in 1..Len(loads), outcome \in QueryOutcomes : RecordsQueryReturns(l, outcome)
    \/ \E l \in 1..Len(loads), outcome \in QueryOutcomes : CategoriesQueryReturns(l, outcome)
    \/ \E outcome \in QueryOutcomes : TasksQueryReturns(outcome)
    \/ \E outcome \in QueryOutcomes : TaskFilesQueryReturns(outcome)
    \/ ResponsesQueryReturns("throw")
    \/ \E outcome \in {"user", "nouser", "throw"} : GetUserReturns(outcome)
    \/ \E outcome \in QueryOutcomes : DocumentsQueryReturns(outcome)
    \/ \E outcome \in QueryOutcomes : CheckFileReturns(outcome)
    \/ \E r \in 1..Len(recentFetches), outcome \in {"user", "nouser", "throw"} :
            RecentGetUserReturns(r, outcome)
    \/ \E r \in 1..Len(recentFetches), outcome \in QueryOutcomes :
            RecentFilesQueryReturns(r, outcome)

\* The store answers: while a query is awaited, one of the awaited queries
\* returns. The fetches of a component are finitely many, so each of them
\* gets its answers.
QueriesReturn == WF_vars(QueryReturns)

FairSpec == Spec /\ QueriesReturn

-----------------------------------------------------------------------------
(* Specification of the pivot engine as a pure function *)

InitPivot ==
    /\ records \in SeqsUpTo(RecordSet, MaxRecords)
    /\ categories \in CategoryTables
    /\ pivot = NoData
    /\ TaskFnIdle /\ MachineIdle

Transform ==
    /\ pivot = NoData
    /\ pivot' = transformCashflowData(records, categories, Null)
    /\ UNCHANGED <<records, categories, taskFnVars, machineVars>>

NextPivot == Transform

SpecPivot == InitPivot /\ [][NextPivot]_vars

\* The pivot applied to every record list over three category ids (one of
\* them unresolved) and one category table; the order-independence of the
\* pivot is checked here against all reorderings of each list.
PermuteRecordSet == {r \in RecordSet : r.category_id \in {"c1", "c2", "c9"}}

PermuteTable == <<Cat("c1", "Sales", "income"), Cat("c2", "Rent", "expense")>>

InitPermute ==
    /\ records \in SeqsUpTo(PermuteRecordSet, MaxRecords)
    /\ categories = PermuteTable
    /\ pivot = NoData
    /\ TaskFnIdle /\ MachineIdle

SpecPermute == InitPermute /\ [][NextPivot]_vars

\* The behaviours of SpecPivot once more: the sums of the cells and of the
\* summary are compared with sums taken directly over the records.
SpecSums == InitPivot /\ [][NextPivot]_vars

-----------------------------------------------------------------------------
(* Specifications of the task pipeline as pure functions *)

\* The three queries of fetchTasksAndFiles have returned their rows.
InitMerge ==
    /\ tasks \in TaskRowLists
    /\ files \in SeqsUpTo(FileRowSet, MaxFiles)
    /\ responses \in SeqsUpTo(ResponseRowSet, MaxResponses)
    /\ tasksWithState = <<>>
    /\ taskCategories = <<>>
    /\ taskPc = "merge"
    /\ PivotIdle /\ MachineIdle

\* processTasksAndFiles is given a task list.
InitGroup ==
    /\ tasks = <<>> /\ files = <<>> /\ responses = <<>>
    /\ tasksWithState \in TaskArgLists
    /\ taskCategories = <<>>
    /\ taskPc = "process"
    /\ PivotIdle /\ MachineIdle

MergeResponses ==
    /\ taskPc = "merge"
    /\ tasksWithState' = mergeResponses(tasks, files, responses)
    /\ taskPc' = "process"
    /\ UNCHANGED <<tasks, files, responses, taskCategories, pivotVars, machineVars>>

ProcessTasks ==
    /\ taskPc = "process"
    /\ taskCategories' = processTasksAndFiles(tasksWithState)
    /\ taskPc' = "done"
    /\ UNCHANGED <<tasks, files, responses, tasksWithState, pivotVars, machineVars>>

NextMerge == MergeResponses \/ ProcessTasks

SpecMerge == InitMerge /\ [][NextMerge]_vars

NextGroup == ProcessTasks

SpecGroup == InitGroup /\ [][NextGroup]_vars

-----------------------------------------------------------------------------
(* Properties of the pivot engine *)

PivotDone == pivot.kind = "pivot"

CategoryNameSet == {"Sales", "Rent", "Loan"}

YearsOfPivot == Range(pivot.years)

\* A cell of a two-level object, an absent cell counting as zero.
CellOrZero(obj, k1, k2) ==
    IF k1 \in DOMAIN obj /\ k2 \in DOMAIN obj[k1] THEN obj[k1][k2] ELSE 0

ValueOrZero(obj, k) == IF k \in DOMAIN obj THEN obj[k] ELSE 0

RECURSIVE SumValues(_)
SumValues(f) ==
    IF DOMAIN f = {} THEN 0
    ELSE LET k == CHOOSE x \in DOMAIN f : TRUE
         IN f[k] + SumValues([x \in (DOMAIN f) \ {k} |-> f[x]])

\* Some record of year y resolves to a category named c.
HasResolvedRecord(c, y) ==
    \E i \in 1..Len(records) :
        /\ records[i].year = y
        /\ Resolves(pivot.categories, records[i])
        /\ pivot.categories[records[i].category_id].name = c

\* C1: the years list is strictly ascending in numeric order, without
\* duplicates, and holds exactly the distinct years of the input records.
C1_YearsAscendingExact ==
    PivotDone =>
        /\ \A i, j \in 1..Len(pivot.years) : i < j => pivot.years[i] < pivot.years[j]
        /\ YearsOfPivot = {records[i].year : i \in 1..Len(records)}

\* C4: for every year of `years`, the byCategory cells of that year and the
\* byYear cells of that year have the same sum over all category names.
C4_ViewsAgree ==
    PivotDone =>
        \A y \in YearsOfPivot :
            SumValues([c \in CategoryNameSet |-> CellOrZero(pivot.byCategory, c, y)])
                = SumValues([c \in CategoryNameSet |-> CellOrZero(pivot.byYear, y, c)])

\* A year with cells of two names, one of them the sum of two records.
C4_Witness ==
    /\ PivotDone
    /\ \E y \in YearsOfPivot :
          /\ Cardinality(DOMAIN pivot.byYear[y]) >= 2
          /\ \E c \in DOMAIN pivot.byYear[y] :
                /\ pivot.byYear[y][c] # 0
                /\ Cardinality({i \in 1..Len(records) :
                        /\ records[i].year = y
                        /\ Resolves(pivot.categories, records[i])
                        /\ pivot.categories[records[i].category_id].name = c}) >= 2

\* The input without the records whose category_id matches no category.
ResolvedRecords ==
    LET Keep(r) == Resolves(categoryMap(categories), r)
    IN SelectSeq(records, Keep)

\* C5: dropping the records whose category does not resolve changes no
\* byCategory cell, no byYear cell value, not categoryNames and no value of
\* the summary (a year that is absent from a per-year map counts as zero).
C5_UnresolvedSkipped ==
    PivotDone =>
        LET q == transformCashflowData(ResolvedRecords, categories, Null)
        IN /\ pivot.byCategory = q.byCategory
           /\ \A y \in YearSet, c \in CategoryNameSet :
                 /\ CellOrZero(pivot.byYear, y, c) = CellOrZero(q.byYear, y, c)
                 /\ (y \in DOMAIN pivot.byYear /\ c \in DOMAIN pivot.byYear[y])
                      <=> (y \in DOMAIN q.byYear /\ c \in DOMAIN q.byYear[y])
           /\ pivot.categoryNames = q.categoryNames
           /\ \A y \in YearSet :
                 /\ ValueOrZero(pivot.summary.incomeByYear, y) = ValueOrZero(q.summary.incomeByYear, y)
                 /\ ValueOrZero(pivot.summary.expensesByYear, y) = ValueOrZero(q.summary.expensesByYear, y)
                 /\ ValueOrZero(pivot.summary.netByYear, y) = ValueOrZero(q.summary.netByYear, y)
           /\ pivot.summary.totalIncome = q.summary.totalIncome
           /\ pivot.summary.totalExpenses = q.summary.totalExpenses
           /\ pivot.summary.totalNet = q.summary.totalNet

\* An unresolved record whose year occurs on no resolved record, next to
\* resolved income and expense records.
C5_Witness ==
    /\ PivotDone
    /\ Len(ResolvedRecords) >= 2
    /\ pivot.summary.totalIncome # 0
    /\ \E i \in 1..Len(records) :
          /\ ~Resolves(pivot.categories, records[i])
          /\ \A j \in 1..Len(ResolvedRecords) : ResolvedRecords[j].year # records[i].year

\* C6: netByYear[y] = incomeByYear[y] - expensesByYear[y] for every year.
C6_NetByYear ==
    PivotDone =>
        \A y \in YearsOfPivot :
            pivot.summary.netByYear[y]
                = pivot.summary.incomeByYear[y] - pivot.summary.expensesByYear[y]

C6_Witness ==
    /\ PivotDone
    /\ \E y \in YearsOfPivot :
          /\ pivot.summary.incomeByYear[y] # 0
          /\ pivot.summary.expensesByYear[y] # 0
          /\ pivot.summary.netByYear[y] # pivot.summary.incomeByYear[y]

C10_EveryYearInEveryMap ==
    PivotDone =>
        \A y \in YearsOfPivot :
            /\ y \in DOMAIN pivot.summary.incomeByYear
            /\ y \in DOMAIN pivot.summary.expensesByYear
            /\ y \in DOMAIN pivot.summary.netByYear
            /\ y \in DOMAIN pivot.byYear
            /\ \A c \in Range(pivot.categoryNames) :
                  c \in DOMAIN pivot.byCategory /\ y \in DOMAIN pivot.byCategory[c]

\* C10 amended: every year of `years` has an entry in incomeByYear,
\* expensesByYear, netByYear and byYear; byCategory has a row for every name
\* of categoryNames, and that row has an entry for year y exactly when some
\* record of year y resolves to a category of that name.
C10_YearEntries ==
    PivotDone =>
        \A y \in YearsOfPivot :
            /\ y \in DOMAIN pivot.summary.incomeByYear
            /\ y \in DOMAIN pivot.summary.expensesByYear
            /\ y \in DOMAIN pivot.summary.netByYear
            /\ y \in DOMAIN pivot.byYear
            /\ \A c \in Range(pivot.categoryNames) :
                  /\ c \in DOMAIN pivot.byCategory
                  /\ y \in DOMAIN pivot.byCategory[c] <=> HasResolvedRecord(c, y)

\* Two years and two names, one of the names without a record in one year.
C10_Witness ==
    /\ PivotDone
    /\ Len(pivot.years) >= 2
    /\ Len(pivot.categoryNames) >= 2
    /\ \E y \in YearsOfPivot, c \in Range(pivot.categoryNames) :
          /\ y \notin DOMAIN pivot.byCategory[c]
          /\ pivot.summary.netByYear[y] = 0
          /\ \E d \in Range(pivot.categoryNames) : y \in DOMAIN pivot.byCategory[d]

\* The permutations of 1..n.
PermutationsOf(n) ==
    {p \in [1..n -> 1..n] : \A i, j \in 1..n : p[i] = p[j] => i = j}

\* C11: the pivot does not depend on the order of the records: every
\* permutation of the input gives the same byCategory, byYear, years,
\* categoryNames and summary.
C11_OrderIndependent ==
    PivotDone =>
        \A p \in PermutationsOf(Len(records)) :
            LET q == transformCashflowData([i \in 1..Len(records) |-> records[p[i]]],
                                           categories, Null)
            IN /\ q.byCategory = pivot.byCategory
               /\ q.byYear = pivot.byYear
               /\ q.years = pivot.years
               /\ q.categoryNames = pivot.categoryNames
               /\ q.summary = pivot.summary

\* Three records of two years and two names in descending order of year
\* and name, two of them summed into one cell.
C11_Witness ==
    /\ PivotDone
    /\ Len(records) = 3
    /\ Len(pivot.years) = 2
    /\ records[1].year = pivot.years[2]
    /\ Len(pivot.categoryNames) = 2
    /\ Resolves(pivot.categories, records[1])
    /\ pivot.categories[records[1].category_id].name = pivot.categoryNames[2]
    /\ \E c \in DOMAIN pivot.byCategory, y \in YearsOfPivot :
          y \in DOMAIN pivot.byCategory[c] /\ pivot.byCategory[c][y] = 2

\* The records of year y whose category resolves to one of the given types.
TypedRecordIndices(types, y) ==
    {i \in 1..Len(records) :
        /\ records[i].year = y
        /\ Resolves(pivot.categories, records[i])
        /\ pivot.categories[records[i].category_id].type \in types}

\* The records of year y whose category resolves to the name c.
NamedRecordIndices(c, y) ==
    {i \in 1..Len(records) :
        /\ records[i].year = y
        /\ Resolves(pivot.categories, records[i])
        /\ pivot.categories[records[i].category_id].name = c}

AmountSum(I) == SumValues([i \in I |-> records[i].amount])

\* The input without the records whose category is of type debt or other.
IncomeAndExpenseRecords ==
    LET cmap == categoryMap(categories)
        Keep(r) == ~(Resolves(cmap, r) /\ cmap[r.category_id].type \in {"debt", "other"})
    IN SelectSeq(records, Keep)

C18_CellsAreSums ==
    PivotDone =>
        \A c \in CategoryNameSet, y \in YearSet :
            /\ (c \in DOMAIN pivot.byCategory /\ y \in DOMAIN pivot.byCategory[c])
                  <=> NamedRecordIndices(c, y) # {}
            /\ NamedRecordIndices(c, y) # {} =>
                  /\ pivot.byCategory[c][y] = AmountSum(NamedRecordIndices(c, y))
                  /\ y \in DOMAIN pivot.byYear /\ c \in DOMAIN pivot.byYear[y]
                  /\ pivot.byYear[y][c] = AmountSum(NamedRecordIndices(c, y))

\* Three records of one year and one name under two category ids, the
\* running sum being zero after the second.
C18_Witness ==
    /\ PivotDone
    /\ Len(records) = 3
    /\ \E c \in CategoryNameSet, y \in YearSet :
          /\ NamedRecordIndices(c, y) = {1, 2, 3}
          /\ records[1].category_id # records[2].category_id
          /\ records[1].amount + records[2].amount = 0
          /\ pivot.byCategory[c][y] = records[3].amount

-----------------------------------------------------------------------------
(* Properties of the task pipeline *)

\* C2: a task is complete exactly when a processed file references it or some
\* response for it has a non-empty value, whatever the number and order of
\* the files and responses.
C2_CompleteIff ==
    taskPc \in {"process", "done"} =>
        \A i \in 1..Len(tasksWithState) :
            tasksWithState[i].isComplete = "true"
                <=> \/ \E f \in 1..Len(files) :
                          files[f].task_id = tasksWithState[i].task_id
                          /\ files[f].status = "processed"
                    \/ \E r \in 1..Len(responses) :
                          responses[r].task_id = tasksWithState[i].task_id
                          /\ responses[r].value \notin {Null, ""}

\* Alphabetical position of the bucket names used as inputs.
AlphabetRank ==
    [n \in {"audit", "Legal", "Uncategorized", "Zoning"} |->
        CASE n = "audit" -> 1 [] n = "Legal" -> 2
          [] n = "Uncategorized" -> 3 [] n = "Zoning" -> 4]

\* C8: the bucket "Uncategorized", if present, is the last one, and the
\* other buckets are in ascending alphabetical order of their names.
C8_UncategorizedLast ==
    taskPc = "done" =>
        \A i, j \in 1..Len(taskCategories) :
            i < j =>
                /\ taskCategories[i].name # "Uncategorized"
                /\ (taskCategories[j].name # "Uncategorized"
                      => AlphabetRank[taskCategories[i].name]
                             < AlphabetRank[taskCategories[j].name])

\* "Uncategorized" was met first and sorts last, after a name that follows
\* it in the alphabet and a lower-case name that precedes the others.
C8_Witness ==
    /\ taskPc = "done"
    /\ Len(tasksWithState) = 3
    /\ bucketName(tasksWithState[1]) = "Uncategorized"
    /\ Len(taskCategories) = 3
    /\ taskCategories[1].name = "audit"
    /\ taskCategories[2].name = "Zoning"
    /\ taskCategories[3].name = "Uncategorized"

\* C9: a bucket is complete exactly when every task in it is complete, a
\* task being complete only when its incoming isComplete is exactly true.
C9_BucketComplete ==
    taskPc = "done" =>
        \A b \in 1..Len(taskCategories) :
            /\ taskCategories[b].isComplete
                  <=> \A t \in 1..Len(taskCategories[b].tasks) :
                          taskCategories[b].tasks[t].isComplete
            /\ taskCategories[b].isComplete
                  <=> \A i \in 1..Len(tasksWithState) :
                          bucketName(tasksWithState[i]) = taskCategories[b].name
                              => tasksWithState[i].isComplete = "true"

\* A complete bucket of two tasks next to a bucket that is incomplete only
\* because one of its tasks has no isComplete.
C9_Witness ==
    /\ taskPc = "done"
    /\ \E b, c \in 1..Len(taskCategories) :
          /\ taskCategories[b].isComplete
          /\ Len(taskCategories[b].tasks) = 2
          /\ ~taskCategories[c].isComplete
          /\ \A i \in 1..Len(tasksWithState) :
                bucketName(tasksWithState[i]) = taskCategories[c].name
                    => tasksWithState[i].isComplete = Undefined

\* The places <<bucket, position>> at which the i-th input task occurs in
\* the output.
PlacesOf(i) ==
    {bt \in (1..Len(taskCategories)) \X (1..MaxTasks) :
        /\ bt[2] <= Len(taskCategories[bt[1]].tasks)
        /\ taskCategories[bt[1]].tasks[bt[2]].task_id = tasksWithState[i].task_id}

\* C13: the grouping is a partition: every input task occurs exactly once,
\* in the bucket named by its category when that is a non-null string and
\* in "Uncategorized" when it is null or absent; the tasks of a bucket are
\* in input order and no bucket is empty.
C13_Partition ==
    taskPc = "done" =>
        /\ \A i \in 1..Len(tasksWithState) :
              /\ Cardinality(PlacesOf(i)) = 1
              /\ \A bt \in PlacesOf(i) :
                    taskCategories[bt[1]].name
                        = IF tasksWithState[i].category \in {Null, Undefined}
                          THEN "Uncategorized"
                          ELSE tasksWithState[i].category
        /\ \A i, j \in 1..Len(tasksWithState) :
              \A bi \in PlacesOf(i), bj \in PlacesOf(j) :
                  (i < j /\ bi[1] = bj[1]) => bi[2] < bj[2]
        /\ \A b \in 1..Len(taskCategories) :
              /\ Len(taskCategories[b].tasks) >= 1
              /\ \A t \in 1..Len(taskCategories[b].tasks) :
                    \E i \in 1..Len(tasksWithState) : <<b, t>> \in PlacesOf(i)

-----------------------------------------------------------------------------
(* Properties of the fetching components *)

\* Load l of the analysis hook ends in this step after one of its queries failed.
AnalysisLoadFailsNow(l) ==
    loads[l].pc # "done" /\ loads'[l].pc = "done" /\ loads'[l].failure # "none"

\* The task fetch ends in this step, `failures` naming the failed query.
TaskFetchFailsNow(failures) ==
    taskPc # "done" /\ taskPc' = "done" /\ taskFetch'.failure \in failures

\* The documents fetch ends in this step after its query failed.
DocumentsFetchFailsNow ==
    docsFetch.pc # "done" /\ docsFetch'.pc = "done" /\ docsFetch'.failure # "none"

\* C3 as stated: every fetch that ends after a failed store query leaves an
\* error value in the error state of its component.
C3_EveryFailureSetsError ==
    [][ /\ \A l \in 1..Len(loads) : AnalysisLoadFailsNow(l) => error' # Null
        /\ TaskFetchFailsNow({"tasks", "files", "responses", "responsesError"})
              => taskError' # Null
        /\ DocumentsFetchFailsNow => documentsListError # Null ]_vars

\* C3 amended: a failed file, records or categories query of the analysis
\* load, a failed tasks or uploaded-files query of the task view and a
\* rejected survey-responses query are caught and leave an error value in
\* the error state of their component. An error returned by the
\* survey-responses query is only logged: the fetch completes as with no
\* responses and leaves the error state as it was. A failed documents query
\* is caught and logged: uploadedFiles is unchanged and the component has no
\* error state. Every such fetch ends with isLoading false and none leaves
\* the handler uncaught.
C3_FailuresHandled ==
    [][ /\ \A l \in 1..Len(loads) :
              AnalysisLoadFailsNow(l) =>
                  error' # Null /\ ~isLoading' /\ loads'[l].exit = "caught"
        /\ TaskFetchFailsNow({"tasks", "files", "responses"}) =>
              taskError' # Null /\ ~taskIsLoading' /\ taskFetch'.exit = "caught"
        /\ TaskFetchFailsNow({"responsesError"}) =>
              /\ taskError' = taskError
              /\ ~taskIsLoading'
              /\ taskFetch'.exit = "completed"
              /\ taskCategories' = processTasksAndFiles(mergeResponses(tasks, files, <<>>))
        /\ DocumentsFetchFailsNow =>
              /\ uploadedFiles' = uploadedFiles
              /\ ~docsIsLoading'
              /\ docsFetch'.exit = "caught"
              /\ documentsListError = Null ]_vars

\* The survey-responses query returned an error: the task view shows its
\* buckets and no error.
C3_Witness ==
    /\ taskPc = "done"
    /\ taskFetch.failure = "responsesError"
    /\ taskError = Null
    /\ ~taskIsLoading
    /\ Len(taskCategories) = 3

\* The pivot a load of file fid commits when its three queries succeed.
PivotOfFile(fid) ==
    transformCashflowData(recordsQuery(fid), StoredCategories, fileQuery(fid)[1])

\* C15: loads are neither cancelled nor ordered: a new trigger leaves the
\* loads in flight as they are, and a load whose last query succeeds
\* commits the pivot of its own file whatever the current fileId is.
C15_NoCancellation ==
    [][ \A l \in 1..Len(loads) :
            /\ Len(loads') > Len(loads) => loads'[l] = loads[l]
            /\ (loads[l].pc = "categoriesQuery" /\ loads'[l].exit = "completed")
                  => data' = PivotOfFile(loads[l].fileId) ]_vars

\* Both loads have finished, the current fileId is f2 and `data` holds the
\* pivot of f1: the load of f1, triggered first, finished last.
C15_Witness ==
    /\ Len(loads) = 2
    /\ loads[1].fileId = "f1" /\ loads[2].fileId = "f2"
    /\ loads[1].exit = "completed" /\ loads[2].exit = "completed"
    /\ fileId = "f2"
    /\ data = PivotOfFile("f1")
    /\ data # PivotOfFile("f2")

\* C16: a load issues its queries in the order file, records, categories:
\* the records query only after the file query returned a row without
\* error, the categories query only after the records query returned
\* without error; after its first failure the load issues no query and does
\* not run the transformation.
C16_QueriesInOrder ==
    [][ \A l \in 1..Len(loads') :
            /\ l > Len(loads) => loads'[l].pc \in {"fileQuery", "done"}
            /\ l <= Len(loads) =>
                  /\ (loads'[l].pc = "recordsQuery" /\ loads[l].pc # "recordsQuery")
                        => /\ loads[l].pc = "fileQuery"
                           /\ loads'[l].file # NoFile
                           /\ loads'[l].exit = "none"
                  /\ (loads'[l].pc = "categoriesQuery" /\ loads[l].pc # "categoriesQuery")
                        => /\ loads[l].pc = "recordsQuery"
                           /\ loads'[l].exit = "none"
                  /\ (loads'[l].exit = "caught" /\ loads[l].exit # "caught")
                        => loads'[l].pc = "done" /\ data' = data
                  /\ loads[l].exit = "caught" => loads'[l] = loads[l] ]_vars

\* The records query of a load failed: the load is over, the categories
\* query was not issued and nothing was committed; a later load has reached
\* its categories query.
C16_Witness ==
    /\ Len(loads) = 2
    /\ loads[1].failure = "records" /\ loads[1].pc = "done"
    /\ loads[2].pc = "categoriesQuery"
    /\ data = NoData

\* The store has no row of this id that is not soft-deleted.
FileMissing(fid) ==
    \A i \in 1..Len(StoredFiles) :
        StoredFiles[i].id = fid => StoredFiles[i].is_deleted = "true"

\* C17: a load of a missing or deleted file, and a load with an empty
\* fileId, end with an error message in `error`, isLoading false and `data`
\* unchanged; `error` is reset to null when a load with a non-empty fileId
\* starts, and `data` is never reset to null.
C17_MissingFile ==
    [][ /\ \A l \in 1..Len(loads) :
              (loads[l].pc = "fileQuery" /\ loads'[l].pc # "fileQuery"
                    /\ FileMissing(loads[l].fileId))
                  => /\ loads'[l].pc = "done"
                     /\ error' \in {"File not found or has been deleted",
                                    "Error fetching file: store error", "network error"}
                     /\ ~isLoading'
                     /\ data' = data
        /\ Len(loads') > Len(loads) =>
              IF loads'[Len(loads')].fileId = ""
              THEN error' = "File ID is required" /\ ~isLoading' /\ data' = data
                   /\ loads'[Len(loads')].pc = "done"
              ELSE error' = Null /\ data' = data
        /\ data # NoData => data' # NoData ]_vars

\* The load of the deleted file f3 failed after the load of f1 succeeded:
\* the error and the pivot of f1 are both there.
C17_Witness ==
    /\ Len(loads) = 2
    /\ loads[1].fileId = "f1" /\ loads[1].exit = "completed"
    /\ loads[2].fileId = "f3" /\ loads[2].exit = "caught" /\ loads[2].failure = "none"
    /\ error = "File not found or has been deleted"
    /\ data = PivotOfFile("f1")
    /\ ~isLoading

\* C20: a file whose soft delete has succeeded is in no later
\* `uploadedFiles`, whatever other call completes afterwards.
C20_DeletedStaysAbsent ==
    \A d \in 1..Len(deletes) :
        deletes[d].exit = "completed" =>
            \A i \in 1..Len(uploadedFiles) : uploadedFiles[i].id # deletes[d].fileId

\* initialize returns in this step.
InitializeCompletes == lastInit.pc # "done" /\ lastInit'.pc = "done"

\* The entry that initialize read names a file of the store that is not
\* soft-deleted, and is less than thirty days old.
StoredFileUsable ==
    /\ lastInit.read.kind = "entry"
    /\ lastInit.read.age < FreshnessDays
    /\ \E i \in 1..Len(store) :
          store[i].id = lastInit.read.fileId /\ store[i].is_deleted # "true"

\* The id of the processed file with the latest processed_at among those
\* that are not soft-deleted, null when there is none.
MostRecentProcessed ==
    LET live == {i \in 1..Len(store) :
                    store[i].status = "processed" /\ store[i].is_deleted # "true"}
    IN IF live = {} THEN Null
       ELSE store[CHOOSE i \in live :
                     \A j \in live : store[j].processed_at <= store[i].processed_at].id

\* C14 as stated: when initialize returns, lastFileId is the stored id if
\* the entry is readable, less than thirty days old and names a file that
\* exists and is not deleted; in every other case it is the most recently
\* processed file that is not deleted, or null when there is none; the hook
\* sets no user-visible error.
C14_InitializeResult ==
    [][ InitializeCompletes =>
            /\ lastFileId' = IF StoredFileUsable THEN lastInit.read.fileId
                                                 ELSE MostRecentProcessed
            /\ lastFileError = Null ]_vars

\* The call of fetchRecentFiles that initialize awaits completed its query.
AwaitedFetchCompleted ==
    \E r \in 1..Len(recentFetches) :
        recentFetches[r].awaited /\ recentFetches'[r].exit = "completed"

\* C14 amended: when initialize returns, lastFileId is the stored id if the
\* entry is readable, less than thirty days old and the existence query
\* for it returns the file; that query returns it only if the file exists
\* and is not deleted, and a failed query counts as a missing file.
\* Otherwise lastFileId is the most recently processed file that is not
\* deleted when a user is signed in and the recent-files query succeeds
\* (null when there is no such file), and null when no user is signed in or
\* that query fails. The hook has no error state.
C14_InitializeResultIfQueriesSucceed ==
    [][ InitializeCompletes =>
            /\ lastInit'.check = "exists" => StoredFileUsable
            /\ (StoredFileUsable /\ lastInit'.check # "failed") => lastInit'.check = "exists"
            /\ lastFileId' = IF lastInit'.check = "exists" THEN lastInit.read.fileId
                             ELSE IF AwaitedFetchCompleted THEN MostRecentProcessed
                             ELSE Null
            /\ lastFileError = Null ]_vars

\* The stored entry was fresh and its file exists: lastFileId is the stored
\* f1 although f4 was processed later.
C14_Witness ==
    /\ lastInit.pc = "done"
    /\ lastInit.read = StorageEntry("entry", "f1", FreshnessDays - 1)
    /\ lastInit.check = "exists"
    /\ lastFileId = "f1"
    /\ MostRecentProcessed = "f4"

\* Some fetch of the mounted component has been started and none is in flight.
FetchesOver(component) ==
    CASE component = "analysis" ->
            Len(loads) > 0 /\ \A l \in 1..Len(loads) : loads[l].pc = "done"
      [] component = "tasks" -> taskPc = "done"
      [] component = "documents" -> docsFetch.pc = "done"
      [] component = "lastFile" ->
            /\ Len(recentFetches) > 0
            /\ \A r \in 1..Len(recentFetches) : recentFetches[r].pc = "done"
            /\ lastInit.pc \in {"start", "done"}

\* Some fetch of the component has been started and has not ended.
FetchInFlight(component) ==
    CASE component = "analysis" -> \E l \in 1..Len(loads) : loads[l].pc # "done"
      [] component = "tasks" -> taskPc \notin {"idle", "done"}
      [] component = "documents" -> docsFetch.pc \notin {"idle", "done"}
      [] component = "lastFile" ->
            \E r \in 1..Len(recentFetches) : recentFetches[r].pc # "done"

\* The isLoading state of a component.
IsLoadingOf(component) ==
    CASE component = "analysis" -> isLoading
      [] component = "tasks" -> taskIsLoading
      [] component = "documents" -> docsIsLoading
      [] component = "lastFile" -> lastIsLoading

\* C19: every fetch that has been started ends, on every path, and the step
\* in which it ends sets the isLoading state of its component to false;
\* when the fetches of a component are over its isLoading is false. (A
\* component starts finitely many fetches, so each of them ends exactly
\* when, from every state with a fetch in flight, a state with none in
\* flight is reached.)
C19_FetchesEndLoading ==
    /\ [](FetchesOver(mounted) => ~IsLoadingOf(mounted))
    /\ [][ /\ \A l \in 1..Len(loads) :
                  (loads[l].pc # "done" /\ loads'[l].pc = "done") => ~isLoading'
           /\ (taskPc \notin {"idle", "done"} /\ taskPc' = "done") => ~taskIsLoading'
           /\ (docsFetch.pc # "done" /\ docsFetch'.pc = "done") => ~docsIsLoading'
           /\ \A r \in 1..Len(recentFetches) :
                  (recentFetches[r].pc # "done" /\ recentFetches'[r].pc = "done")
                      => ~lastIsLoading' ]_vars
    /\ FetchInFlight(mounted) ~> ~FetchInFlight(mounted)

\* The hook took the stored file and the background fetch of the recent
\* files has ended on the no-user path: isLoading is false.
C19_Witness ==
    /\ lastInit.pc = "done" /\ lastInit.check = "exists"
    /\ Len(recentFetches) = 1
    /\ recentFetches[1].exit = "returned"
    /\ ~lastIsLoading

====
